---- MODULE Spec2Model ----
(***************************************************************************)
(* Model of the CV generation endpoints of the Borg-Tools backend          *)
(* (backend/src/api/v1/endpoints/cv.py) as they run under FastAPI:         *)
(* a request is parsed and validated against CVGenerationRequest, the      *)
(* handler generate_cv runs without suspending (it awaits nothing), the    *)
(* response is sent, and only then Starlette runs the BackgroundTasks the   *)
(* handler filled, i.e. generate_cv_task.                                   *)
(*                                                                         *)
(* The endpoints keep no store: what exists about a job is the CVResponse  *)
(* its submission got, the task in the request's BackgroundTasks and the   *)
(* events that task passes to log_cv_generation.  The module logger's      *)
(* lines (logger.info, logger.error) carry no status and are left out.     *)
(*                                                                         *)
(* The second part models the documentation scripts under docs/            *)
(* (dev-logger.py, timeline-manager.py, decision-tracker.py): each keeps   *)
(* its data in a JSON file that it reads whole and rewrites whole, and two *)
(* processes may run a script on the same project root at once.            *)
(***************************************************************************)
EXTENDS Integers, Sequences, FiniteSets, TLC

\* Number of POST /cv/generate requests a behaviour holds.
MaxRequests == 2

\* Python's None, where a string may stand.
None == "None"
\* A request, response or query that has not been made.
NoRecord == [kind |-> "none"]
\* An optional number: absent, or the number.
NoNumber == << >>
Number(n) == <<n>>

----------------------------------------------------------------------------
(* Inputs: what a client can put into a request.                           *)

\* The identities of the tests' Authorization headers, and a request without one.
Users == {"user_123", "different_user"}
NoAuth == "no-authorization-header"
AuthInputs == Users \cup {NoAuth}

Octocat == <<"o", "c", "t", "o", "c", "a", "t">>
Ghost == <<"g", "h", "o", "s", "t">>
UsernameInputs == {<< >>, Octocat, Ghost}

TemplateInputs == {"minimal", "not-a-real-template"}

\* The profiles the data source (GitHub) can serve; fetching any other fails.
GitHubProfiles == {Octocat}

SubmissionInputs ==
  [auth : AuthInputs, github_username : UsernameInputs, template : TemplateInputs]

\* Settings() reads each field from the environment and falls back to the
\* default: 100 per hour, 1000 per day, or a deployment that sets one per hour.
SettingsInputs ==
  { [RATE_LIMIT_PER_HOUR |-> 100, RATE_LIMIT_PER_DAY |-> 1000],
    [RATE_LIMIT_PER_HOUR |-> 1, RATE_LIMIT_PER_DAY |-> 1000] }

----------------------------------------------------------------------------
(* CVGenerationRequest: the pydantic validation FastAPI runs before the    *)
(* handler.                                                                *)

MinUsernameLength == 1
MaxUsernameLength == 39

\* pattern="^(neon-tech|minimal|enterprise)$"
Templates == {"neon-tech", "minimal", "enterprise"}

\* A request model whose template field lost its pattern: any string passes.
CVGenerationRequest_without_pattern(body) ==
  /\ Len(body.github_username) >= MinUsernameLength
  /\ Len(body.github_username) <= MaxUsernameLength

CVGenerationRequest(body) ==
  /\ Len(body.github_username) >= MinUsernameLength
  /\ Len(body.github_username) <= MaxUsernameLength
  /\ body.template \in Templates

\* The status FastAPI gives a body that fails validation.
ValidationErrorCode == 422
\* The status of a route declared without status_code.
DefaultStatusCode == 200
\* raise HTTPException(status_code=501, ...) in get_cv and download_cv.
NotImplementedCode == 501
\* duration_ms=1500, the mock duration generate_cv_task logs.
MockDurationMs == 1500

----------------------------------------------------------------------------
VARIABLES
  settings,          \* the Settings instance built at import
  request,           \* request[r]: what the client sent in its r-th submission
  pc,                \* pc[r]: how far the r-th request and its response have got
  response,          \* response[r]: the response produced for request r
  background_tasks,  \* background_tasks[r]: the BackgroundTasks of request r
  task_pc,           \* task_pc[r]: how far the task added by request r has got
  uuid_counter,      \* the number of ids uuid4() has handed out
  cv_generation_log, \* cv_generation_log[r]: log_cv_generation events of r's task
  last_query,        \* the last GET on a cv and the response it got
  task_runs          \* task_runs[r]: how often generate_cv_task was entered for r's job

\* The files the documentation scripts (docs/*.py) keep under a project root,
\* and the objects that work on them.
VARIABLES
  decisions_json,       \* docs/decisions.json
  tracker,              \* tracker[p]: the DecisionTracker of process p and its call
  add_decision_returns, \* the add_decision calls that have returned
  dev_events_json,      \* docs/dev-events.json
  log_calls,            \* the number of log_event calls made
  timeline_json,        \* docs/timeline.json
  constructed,          \* the classes constructed on the project root so far
  current_phase         \* what the last get_current_phase returned

docs_vars ==
  <<decisions_json, tracker, add_decision_returns, dev_events_json, log_calls,
    timeline_json, constructed, current_phase>>

cv_vars ==
  <<settings, request, pc, response, background_tasks, task_pc, uuid_counter,
    cv_generation_log, last_query, task_runs>>

vars == <<cv_vars, docs_vars>>

RequestIds == 1..MaxRequests

\* The processes that run the decision tracker on one project root.
Processes == {1, 2}

\* A JSON file that does not exist yet.  written tells whether the last write
\* has put its content: open(path, 'w') empties the file, json.dump fills it.
NoFile(key) == [exists |-> FALSE, written |-> FALSE, content |-> [k \in {key} |-> << >>]]

\* The file after _write_json(path, data) has returned.
Written(data) == [exists |-> TRUE, written |-> TRUE, content |-> data]

\* The file between open(path, 'w') and the end of json.dump: it exists and
\* holds no complete JSON document.
Truncated(file) == [exists |-> TRUE, written |-> FALSE, content |-> file.content]

\* Python's {}.
EmptyDict == [k \in {} |-> << >>]

\* _read_json / _read_timeline: the document, or {} when the file is missing
\* (FileNotFoundError) or is no complete document (json.JSONDecodeError).
ReadJson(file) ==
  IF file.exists /\ file.written THEN file.content ELSE EmptyDict

\* data.get(key, []).
Get(data, key) == IF key \in DOMAIN data THEN data[key] ELSE << >>

\* if key not in data: data[key] = []; then data[key] = value.
Put(data, key, value) ==
  [k \in DOMAIN data \cup {key} |-> IF k = key THEN value ELSE data[k]]

\* A project root without docs files, and no object constructed on it.
DocsInit ==
  /\ decisions_json = NoFile("decisions")
  /\ tracker = [p \in Processes |-> [pc |-> "none"]]
  /\ add_decision_returns = {}
  /\ dev_events_json = NoFile("events")
  /\ log_calls = 0
  /\ timeline_json = NoFile("milestones")
  /\ constructed = {}
  /\ current_phase = None

\* A generator that hands out the id it handed out last (an id made once and
\* kept, as a default argument evaluated when the module is loaded).
uuid4_made_once ==
  IF uuid_counter = 0 THEN uuid_counter + 1 ELSE uuid_counter

\* uuid4(): a fresh identifier on every call (122 random bits, taken as never
\* repeating).
uuid4 == uuid_counter + 1

CVResponse(cv_id, body) ==
  [ id |-> cv_id,
    status |-> "generating",
    github_username |-> body.github_username,
    template |-> body.template,
    download_url |-> None,
    share_url |-> None,
    created_at |-> "2024-01-01T00:00:00Z",
    expires_at |-> None,
    error_message |-> None ]

\* main.py's handler of HTTPException: the status code and a JSON body.
http_exception_handler(status_code, detail) ==
  [ status_code |-> status_code,
    body |-> [message |-> detail, status_code |-> status_code] ]

InitRequests ==
  /\ request = [r \in RequestIds |-> NoRecord]
  /\ pc = [r \in RequestIds |-> "idle"]
  /\ response = [r \in RequestIds |-> NoRecord]
  /\ background_tasks = [r \in RequestIds |-> << >>]
  /\ task_pc = [r \in RequestIds |-> "none"]
  /\ uuid_counter = 0
  /\ cv_generation_log = [r \in RequestIds |-> << >>]
  /\ last_query = NoRecord
  /\ task_runs = [r \in RequestIds |-> 0]
  /\ DocsInit

Init ==
  /\ settings \in SettingsInputs
  /\ InitRequests

\* A scheduler that runs tasks in threads beside the event loop (what Starlette
\* does with a task declared def instead of async def).
EventLoopIdle_with_thread_pool ==
  TRUE

\* The server is one process with one asyncio event loop, and generate_cv_task
\* awaits nothing: from its entry to its return or its exception nothing else
\* runs.  A task is seen midway only between its try and its except block.
EventLoopIdle ==
  \A q \in RequestIds : task_pc[q] # "except"

\* Requests are numbered in the order their handling starts.
Arrives(r) ==
  /\ EventLoopIdle
  /\ pc[r] = "idle"
  /\ \A q \in RequestIds : q < r => pc[q] # "idle"

\* FastAPI rejects a body that is no CVGenerationRequest; the handler is not run.
RejectInvalid(r, input) ==
  /\ Arrives(r)
  /\ ~CVGenerationRequest(input)
  /\ request' = [request EXCEPT ![r] = input]
  /\ response' = [response EXCEPT ![r] =
       [status_code |-> ValidationErrorCode,
        body |-> [detail |-> "request validation error"]]]
  /\ pc' = [pc EXCEPT ![r] = "handled"]
  /\ UNCHANGED <<docs_vars, settings, task_runs, background_tasks, task_pc, uuid_counter,
                 cv_generation_log, last_query>>

\* A handler that adds the task twice.
generate_cv_adds_task_twice(r, input) ==
  /\ Arrives(r)
  /\ CVGenerationRequest(input)
  /\ request' = [request EXCEPT ![r] = input]
  /\ LET user_id == "mock-user-id"
         cv_id == uuid4
         task == [func |-> "generate_cv_task", cv_id |-> cv_id,
                  request |-> input, user_id |-> user_id]
     IN /\ uuid_counter' = cv_id
        /\ background_tasks' = [background_tasks EXCEPT ![r] =
             Append(Append(@, task), task)]
        /\ response' = [response EXCEPT ![r] =
             [status_code |-> DefaultStatusCode,
              body |-> CVResponse(cv_id, input)]]
  /\ task_pc' = [task_pc EXCEPT ![r] = "pending"]
  /\ pc' = [pc EXCEPT ![r] = "handled"]
  /\ UNCHANGED <<docs_vars, settings, task_runs, cv_generation_log, last_query>>

\* The handler, which awaits nothing and so runs in one step: user_id is the
\* mock user, cv_id a fresh uuid, the task is added to the request's
\* BackgroundTasks and the CVResponse is returned.
generate_cv(r, input) ==
  /\ Arrives(r)
  /\ CVGenerationRequest(input)
  /\ request' = [request EXCEPT ![r] = input]
  /\ LET user_id == "mock-user-id"
         cv_id == uuid4
     IN /\ uuid_counter' = cv_id
        /\ background_tasks' = [background_tasks EXCEPT ![r] =
             Append(@, [func |-> "generate_cv_task", cv_id |-> cv_id,
                        request |-> input, user_id |-> user_id])]
        /\ response' = [response EXCEPT ![r] =
             [status_code |-> DefaultStatusCode,
              body |-> CVResponse(cv_id, input)]]
  /\ task_pc' = [task_pc EXCEPT ![r] = "pending"]
  /\ pc' = [pc EXCEPT ![r] = "handled"]
  /\ UNCHANGED <<docs_vars, settings, task_runs, cv_generation_log, last_query>>

\* Starlette sends the response; the background tasks run after it.
SendResponse(r) ==
  /\ EventLoopIdle
  /\ pc[r] = "handled"
  /\ pc' = [pc EXCEPT ![r] = "responded"]
  /\ UNCHANGED <<docs_vars, settings, task_runs, request, response, background_tasks, task_pc,
                 uuid_counter, cv_generation_log, last_query>>

log_cv_generation(task, status, duration_ms, error) ==
  [ user_id |-> task.user_id,
    github_username |-> task.request.github_username,
    template |-> task.request.template,
    status |-> status,
    duration_ms |-> duration_ms,
    error |-> error ]

\* A scheduler that starts the task as soon as it is added, response sent or not.
TaskReady_before_response(r) ==
  /\ EventLoopIdle
  /\ task_pc[r] = "pending"

\* When the task request r added may start: BackgroundTasks are run once the
\* response has been sent.
TaskReady(r) ==
  /\ EventLoopIdle
  /\ task_pc[r] = "pending"
  /\ pc[r] = "responded"

\* A try block in which a statement after log_cv_generation(status="completed")
\* can raise: the completed event is logged and the except block still runs.
generate_cv_task_try_raises_after_log(r) ==
  /\ TaskReady(r)
  /\ LET task == background_tasks[r][1]
     IN /\ cv_generation_log' = [cv_generation_log EXCEPT ![r] =
             Append(@, log_cv_generation(task, "completed", Number(MockDurationMs), None))]
        /\ \/ task_pc' = [task_pc EXCEPT ![r] = "done"]
           \/ task_pc' = [task_pc EXCEPT ![r] = "except"]
  /\ task_runs' = [task_runs EXCEPT ![r] = @ + 1]
  /\ UNCHANGED <<docs_vars, settings, request, pc, response, background_tasks, uuid_counter,
                 last_query>>

\* generate_cv_task is entered and runs its try block: the pipeline is not
\* implemented, the only statement is log_cv_generation(status="completed"),
\* which logs or raises.
generate_cv_task_try(r) ==
  /\ TaskReady(r)
  /\ LET task == background_tasks[r][1]
     IN \/ /\ cv_generation_log' = [cv_generation_log EXCEPT ![r] =
                Append(@, log_cv_generation(task, "completed", Number(MockDurationMs), None))]
           /\ task_pc' = [task_pc EXCEPT ![r] = "done"]
        \/ /\ task_pc' = [task_pc EXCEPT ![r] = "except"]
           /\ UNCHANGED cv_generation_log
  /\ task_runs' = [task_runs EXCEPT ![r] = @ + 1]
  /\ UNCHANGED <<docs_vars, settings, request, pc, response, background_tasks, uuid_counter,
                 last_query>>

\* An except block that retries: after logging the failure it hands the task
\* back to be run again.
generate_cv_task_except_retries(r) ==
  /\ task_pc[r] = "except"
  /\ LET task == background_tasks[r][1]
     IN /\ cv_generation_log' = [cv_generation_log EXCEPT ![r] =
             Append(@, log_cv_generation(task, "failed", NoNumber,
                                         "log_cv_generation raised"))]
        /\ task_pc' = [task_pc EXCEPT ![r] = "pending"]
  /\ UNCHANGED <<docs_vars, settings, task_runs, request, pc, response, background_tasks, uuid_counter,
                 last_query>>

\* The except block: log_cv_generation(status="failed", error=str(e)), which
\* logs or raises in its turn; then the exception leaves the task.
generate_cv_task_except(r) ==
  /\ task_pc[r] = "except"
  /\ LET task == background_tasks[r][1]
     IN \/ /\ cv_generation_log' = [cv_generation_log EXCEPT ![r] =
                Append(@, log_cv_generation(task, "failed", NoNumber,
                                            "log_cv_generation raised"))]
           /\ task_pc' = [task_pc EXCEPT ![r] = "done"]
        \/ /\ task_pc' = [task_pc EXCEPT ![r] = "raised"]
           /\ UNCHANGED cv_generation_log
  /\ UNCHANGED <<docs_vars, settings, task_runs, request, pc, response, background_tasks, uuid_counter,
                 last_query>>

Next ==
  \/ \E r \in RequestIds, input \in SubmissionInputs : RejectInvalid(r, input)
  \/ \E r \in RequestIds, input \in SubmissionInputs : generate_cv(r, input)
  \/ \E r \in RequestIds : SendResponse(r)
  \/ \E r \in RequestIds : generate_cv_task_try(r)
  \/ \E r \in RequestIds : generate_cv_task_except(r)

Spec == Init /\ [][Next]_vars

\* The scheduling the server guarantees: a produced response is sent, the
\* tasks of a sent response are run, and a task that has begun runs on to its
\* return or its exception.  That requests arrive is not guaranteed.
Fairness ==
  \A r \in RequestIds :
    /\ WF_vars(SendResponse(r))
    /\ WF_vars(generate_cv_task_try(r))
    /\ WF_vars(generate_cv_task_except(r))

FairSpec == Spec /\ Fairness

----------------------------------------------------------------------------
(* GET /cv/{cv_id} and GET /cv/{cv_id}/download, and the specification of  *)
(* submissions together with these reads.                                  *)

\* The ids a client can ask for: every id a submission can have got, and one
\* that none has.
CvIdInputs == 1..(MaxRequests + 1)

\* get_cv: logs the request and raises HTTPException(501), whatever the id and
\* whoever asks.
get_cv(cv_id, requester) ==
  /\ EventLoopIdle
  /\ last_query' =
       [ kind |-> "status", cv_id |-> cv_id, requester |-> requester,
         response |-> http_exception_handler(NotImplementedCode,
                                             "CV retrieval not implemented yet") ]
  /\ UNCHANGED <<docs_vars, settings, task_runs, request, pc, response, background_tasks, task_pc,
                 uuid_counter, cv_generation_log>>

\* download_cv: raises HTTPException(501), whatever the id and whoever asks.
download_cv(cv_id, requester) ==
  /\ EventLoopIdle
  /\ last_query' =
       [ kind |-> "download", cv_id |-> cv_id, requester |-> requester,
         response |-> http_exception_handler(NotImplementedCode,
                                             "CV download not implemented yet") ]
  /\ UNCHANGED <<docs_vars, settings, task_runs, request, pc, response, background_tasks, task_pc,
                 uuid_counter, cv_generation_log>>

\* A delete that cancels the task of the job with the id, if it still waits.
delete_cv_cancels_task(cv_id, requester) ==
  /\ EventLoopIdle
  /\ last_query' =
       [ kind |-> "delete", cv_id |-> cv_id, requester |-> requester,
         response |-> [ status_code |-> DefaultStatusCode,
                        body |-> [message |-> "CV deleted successfully"] ] ]
  /\ task_pc' =
       [r \in RequestIds |->
          IF /\ task_pc[r] = "pending"
             /\ background_tasks[r][1].cv_id = cv_id
          THEN "cancelled"
          ELSE task_pc[r]]
  /\ UNCHANGED <<docs_vars, settings, task_runs, request, pc, response, background_tasks,
                 uuid_counter, cv_generation_log>>

\* delete_cv: logs the request and returns the success message, whatever the id
\* and whoever asks; it deletes nothing.
delete_cv(cv_id, requester) ==
  /\ EventLoopIdle
  /\ last_query' =
       [ kind |-> "delete", cv_id |-> cv_id, requester |-> requester,
         response |-> [ status_code |-> DefaultStatusCode,
                        body |-> [message |-> "CV deleted successfully"] ] ]
  /\ UNCHANGED <<docs_vars, settings, task_runs, request, pc, response, background_tasks, task_pc,
                 uuid_counter, cv_generation_log>>

\* The page and the page size a client asks for; 1 and 20 when it names none.
PageInputs == {1, 2}
DefaultPerPage == 20

\* list_cvs: returns an empty CVListResponse for the page asked for, whoever asks.
list_cvs(page, per_page, requester) ==
  /\ EventLoopIdle
  /\ last_query' =
       [ kind |-> "history", requester |-> requester,
         response |->
           [ status_code |-> DefaultStatusCode,
             body |-> [cvs |-> << >>, total |-> 0, page |-> page,
                       per_page |-> per_page] ] ]
  /\ UNCHANGED <<docs_vars, settings, task_runs, request, pc, response, background_tasks, task_pc,
                 uuid_counter, cv_generation_log>>

\* The submissions of the read scenarios: valid bodies sent by known users.
ValidSubmissionInputs ==
  {input \in SubmissionInputs : CVGenerationRequest(input) /\ input.auth \in Users}

DefaultSettings == [RATE_LIMIT_PER_HOUR |-> 100, RATE_LIMIT_PER_DAY |-> 1000]

QueryInit ==
  /\ settings = DefaultSettings
  /\ InitRequests

QueryNext ==
  \/ \E r \in RequestIds, input \in ValidSubmissionInputs : generate_cv(r, input)
  \/ \E r \in RequestIds : SendResponse(r)
  \/ \E r \in RequestIds : generate_cv_task_try(r)
  \/ \E r \in RequestIds : generate_cv_task_except(r)
  \/ \E cv_id \in CvIdInputs, requester \in Users : get_cv(cv_id, requester)
  \/ \E cv_id \in CvIdInputs, requester \in Users : download_cv(cv_id, requester)
  \/ \E page \in PageInputs, requester \in Users :
       list_cvs(page, DefaultPerPage, requester)

QuerySpec == QueryInit /\ [][QueryNext]_vars

\* The specification of submissions together with DELETE /cv/{cv_id}.
DeleteNext ==
  \/ \E r \in RequestIds, input \in ValidSubmissionInputs : generate_cv(r, input)
  \/ \E r \in RequestIds : SendResponse(r)
  \/ \E r \in RequestIds : generate_cv_task_try(r)
  \/ \E r \in RequestIds : generate_cv_task_except(r)
  \/ \E cv_id \in CvIdInputs, requester \in Users : delete_cv(cv_id, requester)

DeleteSpec == QueryInit /\ [][DeleteNext]_vars

----------------------------------------------------------------------------
(* Duplicate dispatch: the specification of submissions whose task may be  *)
(* handed to a second executor.  The endpoints never do this themselves    *)
(* (add_task is called once per request); it is the delivery fault that a  *)
(* guard at the entry of generate_cv_task would have to detect.            *)

\* The task of request r, which one executor has run to its end, is handed to
\* a second executor: generate_cv_task is due again with the same cv_id.
DuplicateDispatch(r) ==
  /\ EventLoopIdle
  /\ task_pc[r] \in {"done", "raised"}
  /\ task_runs[r] = 1
  /\ task_pc' = [task_pc EXCEPT ![r] = "pending"]
  /\ UNCHANGED <<docs_vars, settings, task_runs, request, pc, response, background_tasks,
                 uuid_counter, cv_generation_log, last_query>>

DispatchNext ==
  \/ \E r \in RequestIds, input \in ValidSubmissionInputs : generate_cv(r, input)
  \/ \E r \in RequestIds : SendResponse(r)
  \/ \E r \in RequestIds : generate_cv_task_try(r)
  \/ \E r \in RequestIds : generate_cv_task_except(r)
  \/ \E r \in RequestIds : DuplicateDispatch(r)

DispatchSpec == QueryInit /\ [][DispatchNext]_vars

----------------------------------------------------------------------------
(* docs/dev-logger.py: DevelopmentLogger.                                  *)

\* The number of log_event calls a behaviour holds.
MaxLogCalls == 1002

\* data["events"][-1000:]
KeptEvents == 1000

\* DevelopmentLogger.__init__ and _initialize_logs: each of the three files
\* that does not exist is written with an empty structure.
DevelopmentLogger_init ==
  /\ "DevelopmentLogger" \notin constructed
  /\ constructed' = constructed \cup {"DevelopmentLogger"}
  /\ dev_events_json' =
       IF dev_events_json.exists THEN dev_events_json
       ELSE Written([events |-> << >>])
  /\ timeline_json' =
       IF timeline_json.exists THEN timeline_json
       ELSE Written([milestones |-> << >>])
  /\ decisions_json' =
       IF decisions_json.exists THEN decisions_json
       ELSE Written([decisions |-> << >>])
  /\ UNCHANGED <<cv_vars, tracker, add_decision_returns, log_calls, current_phase>>

\* seq[:n] where seq[-n:] was meant: the first n elements.
LastN_takes_first(seq, n) ==
  IF Len(seq) <= n THEN seq ELSE SubSeq(seq, 1, n)

\* seq[-n:] for n > 0: the whole list when it has at most n elements, else its
\* last n.
LastN(seq, n) ==
  IF Len(seq) <= n THEN seq ELSE SubSeq(seq, Len(seq) - n + 1, Len(seq))

\* log_event: the event is appended to the events read from the file, the last
\* 1000 are kept and the file is written.  An event is represented by its place
\* in the logging order (its timestamp); its type and description decide only
\* whether DOCUMENTARY.md is updated, not what dev-events.json holds.
log_event ==
  /\ "DevelopmentLogger" \in constructed
  /\ log_calls < MaxLogCalls
  /\ log_calls' = log_calls + 1
  /\ LET event == log_calls + 1
         data == ReadJson(dev_events_json)
         events == LastN(Append(Get(data, "events"), event), KeptEvents)
     IN dev_events_json' = Written(Put(data, "events", events))
  /\ UNCHANGED <<cv_vars, decisions_json, tracker, add_decision_returns,
                 timeline_json, constructed, current_phase>>

LogNext ==
  \/ DevelopmentLogger_init
  \/ log_event

LogSpec == QueryInit /\ [][LogNext]_vars

----------------------------------------------------------------------------
(* docs/timeline-manager.py: TimelineManager.                              *)

PhaseIds ==
  <<"conception", "foundation", "ai_agents", "design_system",
    "testing_optimization", "launch">>

\* initial_timeline["phases"]: conception in progress, the others pending.
InitialPhases ==
  [i \in DOMAIN PhaseIds |->
     [id |-> PhaseIds[i],
      status |-> IF PhaseIds[i] = "conception" THEN "in_progress" ELSE "pending"]]

\* TimelineManager.__init__ and _initialize_timeline: the initial timeline is
\* written if timeline.json does not exist.
TimelineManager_init ==
  /\ "TimelineManager" \notin constructed
  /\ constructed' = constructed \cup {"TimelineManager"}
  /\ timeline_json' =
       IF timeline_json.exists THEN timeline_json
       ELSE Written([phases |-> InitialPhases, milestones |-> << >>])
  /\ UNCHANGED <<cv_vars, decisions_json, tracker, add_decision_returns,
                 dev_events_json, log_calls, current_phase>>

\* The phase ids and statuses a caller passes to update_phase_status.
PhaseIdInputs == {PhaseIds[i] : i \in DOMAIN PhaseIds} \cup {"no-such-phase"}
PhaseStatusInputs == {"pending", "in_progress", "completed"}

\* update_phase_status: the first phase with the id gets the status, and the
\* document that was read is written back, found or not.
update_phase_status(phase_id, status) ==
  /\ "TimelineManager" \in constructed
  /\ LET data == ReadJson(timeline_json)
         phases == Get(data, "phases")
         hits == {i \in DOMAIN phases : phases[i].id = phase_id}
         first == CHOOSE i \in hits : \A j \in hits : i <= j
         updated ==
           IF hits = {} THEN phases
           ELSE [phases EXCEPT ![first] = [@ EXCEPT !.status = status]]
     IN timeline_json' =
          Written(IF "phases" \in DOMAIN data THEN Put(data, "phases", updated)
                  ELSE data)
  /\ UNCHANGED <<cv_vars, decisions_json, tracker, add_decision_returns,
                 dev_events_json, log_calls, constructed, current_phase>>

\* What get_current_phase returns for a timeline file: the id of the first
\* phase in progress or active, else of the first pending phase, else None.
CurrentPhase(file) ==
  LET phases == Get(ReadJson(file), "phases")
      active == {i \in DOMAIN phases : phases[i].status \in {"in_progress", "active"}}
      pending == {i \in DOMAIN phases : phases[i].status = "pending"}
      First(S) == CHOOSE i \in S : \A j \in S : i <= j
  IN IF active # {} THEN phases[First(active)].id
     ELSE IF pending # {} THEN phases[First(pending)].id
     ELSE None

get_current_phase ==
  /\ "TimelineManager" \in constructed
  /\ current_phase' = CurrentPhase(timeline_json)
  /\ UNCHANGED <<cv_vars, decisions_json, tracker, add_decision_returns,
                 dev_events_json, log_calls, timeline_json, constructed>>

TimelineNext ==
  \/ TimelineManager_init
  \/ DevelopmentLogger_init
  \/ \E phase_id \in PhaseIdInputs, status \in PhaseStatusInputs :
       update_phase_status(phase_id, status)
  \/ get_current_phase

TimelineSpec == QueryInit /\ [][TimelineNext]_vars

----------------------------------------------------------------------------
(* docs/decision-tracker.py: DecisionTracker.  Each process constructs its *)
(* own tracker on the project root; the methods of one tracker run one     *)
(* after the other, those of two processes interleave at their file        *)
(* accesses.  The ADR markdown file and DECISIONS.md, which a call writes  *)
(* after decisions.json and never reads back, are left out.               *)

\* The number of add_decision calls one process makes.
MaxDecisions == 2

\* The number of status changes a behaviour holds.
MaxUpdates == 3

\* The statuses a caller gives a new decision, and those it changes one to.
AddStatusInputs == {"accepted", "proposed"}
NewStatusInputs == {"accepted", "superseded", "deprecated"}

\* DecisionTracker.__init__ and _initialize_decisions: the initial document
\* is written if decisions.json does not exist.
DecisionTracker_init(p) ==
  /\ tracker[p].pc = "none"
  /\ tracker' = [tracker EXCEPT ![p] = [pc |-> "idle", calls |-> 0, printed |-> << >>]]
  /\ decisions_json' =
       IF decisions_json.exists THEN decisions_json
       ELSE Written([decisions |-> << >>,
                     categories |-> <<"architecture", "technology", "design",
                                      "infrastructure", "security", "performance",
                                      "ui-ux", "business">>,
                     statuses |-> <<"proposed", "accepted", "superseded",
                                    "deprecated", "rejected">>])
  /\ UNCHANGED <<cv_vars, add_decision_returns, dev_events_json, log_calls,
                 timeline_json, constructed, current_phase>>

\* add_decision, first read: the id is the number of decisions in the file
\* plus one (f"ADR-{n:03d}", one string per number), and the record is built.
\* The title stands for the call: process p's k-th.
add_decision_read_id(p, status) ==
  /\ tracker[p].pc = "idle"
  /\ tracker[p].calls < MaxDecisions
  /\ LET decision_id == Len(Get(ReadJson(decisions_json), "decisions")) + 1
         decision_record ==
           [id |-> decision_id, title |-> <<p, tracker[p].calls + 1>>,
            status |-> status]
     IN tracker' = [tracker EXCEPT ![p] =
          [pc |-> "id_read", calls |-> @.calls, printed |-> @.printed,
           decision_record |-> decision_record]]
  /\ UNCHANGED <<cv_vars, decisions_json, add_decision_returns, dev_events_json,
                 log_calls, timeline_json, constructed, current_phase>>

\* add_decision, second read: the document is read again and the record
\* appended to its decisions.
add_decision_read_data(p) ==
  /\ tracker[p].pc = "id_read"
  /\ LET data == ReadJson(decisions_json)
     IN tracker' = [tracker EXCEPT ![p] =
          [pc |-> "data_read", calls |-> @.calls, printed |-> @.printed,
           decision_record |-> @.decision_record,
           data |-> Put(data, "decisions",
                        Append(Get(data, "decisions"), @.decision_record))]]
  /\ UNCHANGED <<cv_vars, decisions_json, add_decision_returns, dev_events_json,
                 log_calls, timeline_json, constructed, current_phase>>

\* add_decision, _write_json: open(file_path, 'w') empties the file.
add_decision_open(p) ==
  /\ tracker[p].pc = "data_read"
  /\ decisions_json' = Truncated(decisions_json)
  /\ tracker' = [tracker EXCEPT ![p].pc = "opened"]
  /\ UNCHANGED <<cv_vars, add_decision_returns, dev_events_json, log_calls,
                 timeline_json, constructed, current_phase>>

\* add_decision, _write_json: json.dump puts the document and the file is
\* closed; the call then returns its id.
add_decision_dump(p) ==
  /\ tracker[p].pc = "opened"
  /\ decisions_json' = Written(tracker[p].data)
  /\ add_decision_returns' = add_decision_returns \cup {tracker[p].decision_record}
  /\ tracker' = [tracker EXCEPT ![p] =
       [pc |-> "idle", calls |-> @.calls + 1, printed |-> <<"recorded">>]]
  /\ UNCHANGED <<cv_vars, dev_events_json, log_calls, timeline_json, constructed,
                 current_phase>>

RaceNext ==
  \/ \E p \in Processes : DecisionTracker_init(p)
  \/ \E p \in Processes, status \in AddStatusInputs : add_decision_read_id(p, status)
  \/ \E p \in Processes : add_decision_read_data(p)
  \/ \E p \in Processes : add_decision_open(p)
  \/ \E p \in Processes : add_decision_dump(p)

RaceSpec == QueryInit /\ [][RaceNext]_vars

\* decision["history"], which exists once a status was changed.
History(decision) == Get(decision, "history")

RECURSIVE Updates(_)
\* The status changes recorded in a list of decisions.
Updates(decisions) ==
  IF decisions = << >> THEN 0
  ELSE Len(History(Head(decisions))) + Updates(Tail(decisions))

\* The ids a caller passes to update_decision_status: those add_decision can
\* have returned, and one more.
DecisionIdInputs == 1..(MaxDecisions + 1)

\* An update that appends the history entry and forgets decision["status"].
update_decision_status_keeps_status(p, decision_id, new_status) ==
  /\ tracker[p].pc = "idle"
  /\ LET data == ReadJson(decisions_json)
         decisions == Get(data, "decisions")
         hits == {i \in DOMAIN decisions : decisions[i].id = decision_id}
         first == CHOOSE i \in hits : \A j \in hits : i <= j
         decision == decisions[first]
         entry == [action |-> "status_change", old_status |-> decision.status,
                   new_status |-> new_status]
         changed == Put(decision, "history", Append(History(decision), entry))
     IN /\ Updates(decisions) < MaxUpdates
        /\ IF hits = {}
           THEN /\ tracker' = [tracker EXCEPT ![p].printed =
                                 <<"not found", decision_id>>]
                /\ UNCHANGED decisions_json
           ELSE /\ tracker' = [tracker EXCEPT ![p].printed =
                                 <<"status updated", decision_id, new_status>>]
                /\ decisions_json' =
                     Written(Put(data, "decisions",
                                 [decisions EXCEPT ![first] = changed]))
  /\ UNCHANGED <<cv_vars, add_decision_returns, dev_events_json, log_calls,
                 timeline_json, constructed, current_phase>>

\* update_decision_status: the first decision with the id gets the new status
\* and a history entry with its old and its new status, and the document is
\* written; for an unknown id only the message is printed.
update_decision_status(p, decision_id, new_status) ==
  /\ tracker[p].pc = "idle"
  /\ LET data == ReadJson(decisions_json)
         decisions == Get(data, "decisions")
         hits == {i \in DOMAIN decisions : decisions[i].id = decision_id}
         first == CHOOSE i \in hits : \A j \in hits : i <= j
         decision == decisions[first]
         entry == [action |-> "status_change", old_status |-> decision.status,
                   new_status |-> new_status]
         changed == Put([decision EXCEPT !.status = new_status], "history",
                        Append(History(decision), entry))
     IN /\ Updates(decisions) < MaxUpdates
        /\ IF hits = {}
           THEN /\ tracker' = [tracker EXCEPT ![p].printed =
                                 <<"not found", decision_id>>]
                /\ UNCHANGED decisions_json
           ELSE /\ tracker' = [tracker EXCEPT ![p].printed =
                                 <<"status updated", decision_id, new_status>>]
                /\ decisions_json' =
                     Written(Put(data, "decisions",
                                 [decisions EXCEPT ![first] = changed]))
  /\ UNCHANGED <<cv_vars, add_decision_returns, dev_events_json, log_calls,
                 timeline_json, constructed, current_phase>>

\* One process: its tracker's calls, one after the other.
StatusNext ==
  \/ DecisionTracker_init(1)
  \/ \E status \in AddStatusInputs : add_decision_read_id(1, status)
  \/ add_decision_read_data(1)
  \/ add_decision_open(1)
  \/ add_decision_dump(1)
  \/ \E decision_id \in DecisionIdInputs, new_status \in NewStatusInputs :
       update_decision_status(1, decision_id, new_status)

StatusSpec == QueryInit /\ [][StatusNext]_vars

----------------------------------------------------------------------------
(* What the code has recorded about the job of request r.                  *)

\* Request r was accepted: the handler issued a cv_id and added the task.
HasJob(r) == background_tasks[r] # << >>

JobTask(r) == background_tasks[r][1]

\* The latest record about the job: the CVResponse until the task logs an
\* outcome, then the last log_cv_generation event.
JobRecord(r) ==
  IF cv_generation_log[r] = << >>
  THEN response[r].body
  ELSE cv_generation_log[r][Len(cv_generation_log[r])]

Field(rec, name) == IF name \in DOMAIN rec THEN rec[name] ELSE None

JobStatus(r) == JobRecord(r).status

\* The artifact reference: CVResponse.download_url; a log event carries none.
JobResultRef(r) == Field(JobRecord(r), "download_url")

\* The failure reason: CVResponse.error_message, or the log event's error.
JobError(r) ==
  IF cv_generation_log[r] = << >>
  THEN JobRecord(r).error_message
  ELSE JobRecord(r).error

\* The user who submitted request r, by its Authorization header.
Submitter(r) == request[r].auth

\* The submissions of r's user that were handled before r and accepted: the
\* quota r's user has consumed when r arrives.
QuotaUsedBefore(r) ==
  Cardinality({q \in RequestIds :
                 /\ q < r
                 /\ Submitter(q) = Submitter(r)
                 /\ response[q].status_code \in 200..299})

\* r's user has a slot left in the hourly and in the daily window.
HasQuota(r) ==
  /\ QuotaUsedBefore(r) < settings.RATE_LIMIT_PER_HOUR
  /\ QuotaUsedBefore(r) < settings.RATE_LIMIT_PER_DAY

\* Request r has been handled: its response exists.
Handled(r) == pc[r] # "idle"

TerminalStatuses == {"completed", "failed"}
NonTerminalStatuses == {"queued", "processing"}

----------------------------------------------------------------------------
(* The claims.                                                             *)

\* C1: every valid submission made by a user who still has rate-limit quota
\* is answered 202, and right after the response (before its pipeline has
\* recorded anything) a job with the returned id exists with status queued
\* or processing.
C1_AcceptedWith202 ==
  \A r \in RequestIds :
    (/\ Handled(r)
     /\ CVGenerationRequest(request[r])
     /\ Submitter(r) \in Users
     /\ HasQuota(r))
    => /\ response[r].status_code = 202
       /\ HasJob(r)
       /\ JobTask(r).cv_id = response[r].body.id
       /\ (cv_generation_log[r] = << >> => JobStatus(r) \in NonTerminalStatuses)

\* C2: two submissions of one user in flight together, made when that user had
\* exactly one quota slot left: one is answered 202 and the other 429.
C2_OneSlotOneAccepted ==
  \A r1, r2 \in RequestIds :
    (/\ r1 < r2
     /\ pc[r1] = "handled" /\ pc[r2] = "handled"
     /\ Submitter(r1) \in Users
     /\ Submitter(r1) = Submitter(r2)
     /\ CVGenerationRequest(request[r1]) /\ CVGenerationRequest(request[r2])
     /\ \A q \in RequestIds : r1 < q /\ q < r2 => Submitter(q) # Submitter(r1)
     /\ settings.RATE_LIMIT_PER_HOUR - QuotaUsedBefore(r1) = 1)
    => {response[r1].status_code, response[r2].status_code} = {202, 429}

\* C3: for every job, a terminal status comes with exactly one of result_ref
\* and error (result_ref iff completed, error iff failed), and a queued or
\* processing job has neither.
C3_ResultXorError ==
  \A r \in RequestIds :
    HasJob(r) =>
      /\ JobStatus(r) \in TerminalStatuses =>
           /\ (JobResultRef(r) # None) # (JobError(r) # None)
           /\ (JobResultRef(r) # None) <=> (JobStatus(r) = "completed")
           /\ (JobError(r) # None) <=> (JobStatus(r) = "failed")
      /\ JobStatus(r) \in NonTerminalStatuses =>
           /\ JobResultRef(r) = None
           /\ JobError(r) = None

\* The job a read of cv_id is about, if a submission got that id.
JobsWithId(cv_id) == {r \in RequestIds : HasJob(r) /\ JobTask(r).cv_id = cv_id}

\* A step that is a read of kind op.
IsRead(op) == last_query' # last_query /\ last_query'.kind = op

\* C4: every status read of a job reports a progress within 0..100, and one
\* that is at least the progress the previous status read of that job reported.
C4_ProgressMonotone ==
  [][(IsRead("status") /\ JobsWithId(last_query'.cv_id) # {}) =>
       /\ "progress" \in DOMAIN last_query'.response.body
       /\ last_query'.response.body.progress \in 0..100
       /\ (/\ last_query.kind = "status"
           /\ last_query.cv_id = last_query'.cv_id
           /\ "progress" \in DOMAIN last_query.response.body)
          => last_query'.response.body.progress >= last_query.response.body.progress
    ]_vars

\* The outcomes the task of request r has recorded.
Outcomes(r) ==
  {cv_generation_log[r][i].status : i \in DOMAIN cv_generation_log[r]}
    \cap TerminalStatuses

TaskFinished(r) == task_pc[r] \in {"done", "raised"}

\* C6: a job whose source data cannot be fetched ends failed with an error
\* naming the step fetch_source_data, and no artifact is stored for it.
C6_FetchFailureFails ==
  \A r \in RequestIds :
    (/\ HasJob(r)
     /\ TaskFinished(r)
     /\ request[r].github_username \notin GitHubProfiles)
    => /\ JobStatus(r) = "failed"
       /\ Field(JobRecord(r), "step") = "fetch_source_data"
       /\ JobResultRef(r) = None

\* C7: a job whose pipeline ran without a failure ends completed with progress
\* 100 and result_ref set; the completed record is the last one of its task.
C7_SuccessCompletes ==
  \A r \in RequestIds :
    (/\ HasJob(r)
     /\ request[r].github_username \in GitHubProfiles
     /\ task_pc[r] = "done"
     /\ "failed" \notin Outcomes(r))
    => /\ JobStatus(r) = "completed"
       /\ "progress" \in DOMAIN JobRecord(r)
       /\ JobRecord(r).progress = 100
       /\ JobResultRef(r) # None

\* C8: the response of generate_cv carries the id of the job it created and is
\* produced while that job has no outcome; the job's task runs only after the
\* job was created, the task added to the scheduler and the response sent.
C8_ResponseBeforePipeline ==
  \A r \in RequestIds :
    /\ (pc[r] = "handled" /\ response[r].status_code = DefaultStatusCode) =>
         /\ task_pc[r] = "pending"
         /\ cv_generation_log[r] = << >>
         /\ JobStatus(r) \notin TerminalStatuses
         /\ Len(background_tasks[r]) = 1
         /\ JobTask(r).cv_id = response[r].body.id
    /\ task_pc[r] \notin {"none", "pending"} =>
         /\ pc[r] = "responded"
         /\ Len(background_tasks[r]) = 1
         /\ JobTask(r).cv_id = response[r].body.id

\* C8's case: a task has run to its end, after its request was answered.
C8_Witness ==
  \E r \in RequestIds :
    /\ task_pc[r] = "done"
    /\ pc[r] = "responded"
    /\ Outcomes(r) = {"completed"}

\* What a response must not show to someone who is not the owner.
JobViewFields ==
  {"status", "progress", "current_step", "download_url", "result_url",
   "result_ref", "error", "error_message"}

\* C9: a status read of an existing job by someone who is not its owner is
\* answered 403 and shows none of the job's status, progress, result or error.
C9_ForeignReadForbidden ==
  [][(/\ IsRead("status")
      /\ \E r \in JobsWithId(last_query'.cv_id) :
           /\ last_query'.requester # Submitter(r)
           /\ last_query'.requester # JobTask(r).user_id)
     => /\ last_query'.response.status_code = 403
        /\ DOMAIN last_query'.response.body \cap JobViewFields = {}
    ]_vars

\* C10: a download by the owner of a job that is not completed is answered 409
\* and returns no artifact; 200 is answered only for a completed job.
C10_DownloadNotReady ==
  [][\A r \in RequestIds :
       (/\ IsRead("download")
        /\ r \in JobsWithId(last_query'.cv_id)
        /\ last_query'.requester = Submitter(r))
       => /\ JobStatus(r) # "completed" =>
               /\ last_query'.response.status_code = 409
               /\ "content" \notin DOMAIN last_query'.response.body
          /\ last_query'.response.status_code = 200 => JobStatus(r) = "completed"
    ]_vars

\* The jobs created so far: the accepted requests.
Jobs == {r \in RequestIds : HasJob(r)}

\* C11: a submission whose template is none of neon-tech, minimal, enterprise
\* is answered 422; no job is created for it (no id is issued), it leaves the
\* quota of its user as it was and no background task is scheduled for it.
C11_InvalidTemplateRejected ==
  \A r \in RequestIds :
    (Handled(r) /\ request[r].template \notin Templates) =>
      /\ response[r].status_code = ValidationErrorCode
      /\ ~HasJob(r)
      /\ task_pc[r] = "none"
      /\ task_runs[r] = 0
      /\ cv_generation_log[r] = << >>
      /\ uuid_counter = Cardinality(Jobs)
      /\ \A q \in RequestIds :
           (Handled(q) /\ q > r) =>
             QuotaUsedBefore(q) <= Cardinality({p \in Jobs : p < q /\ p # r})

\* C11's case: a known user's submission with a good username and a template
\* outside the enumeration was answered, and a later one of that user went in.
C11_Witness ==
  \E r, q \in RequestIds :
    /\ r < q
    /\ pc[r] = "responded"
    /\ request[r].template \notin Templates
    /\ request[r].github_username = Octocat
    /\ Submitter(r) \in Users
    /\ response[r].status_code = ValidationErrorCode
    /\ HasJob(q)
    /\ Submitter(q) = Submitter(r)

\* C12: a valid submission of a user who has no quota left is answered 429; no
\* job is created and no task scheduled for it, and it uses up none of the
\* user's quota.
C12_DeniedWith429 ==
  \A r \in RequestIds :
    (/\ Handled(r)
     /\ CVGenerationRequest(request[r])
     /\ Submitter(r) \in Users
     /\ ~HasQuota(r))
    => /\ response[r].status_code = 429
       /\ ~HasJob(r)
       /\ task_pc[r] = "none"

\* C13: a submission without authentication is answered 401, and no job is
\* created and no background task scheduled for it.
C13_UnauthenticatedRejected ==
  \A r \in RequestIds :
    (Handled(r) /\ request[r].auth = NoAuth)
    => /\ response[r].status_code = 401
       /\ ~HasJob(r)
       /\ task_pc[r] = "none"

\* The jobs user u submitted.
JobsOf(u) == {r \in Jobs : Submitter(r) = u}

\* C14: the first page of a user's history lists exactly the jobs that user
\* submitted, each once, the newest first, and its total is their number.
C14_HistoryOfOwner ==
  [][(IsRead("history") /\ last_query'.response.body.page = 1) =>
       LET cvs == last_query'.response.body.cvs
           mine == JobsOf(last_query'.requester)
       IN /\ last_query'.response.status_code = 200
          /\ Len(cvs) = Cardinality(mine)
          /\ {cvs[i].id : i \in DOMAIN cvs} = {JobTask(r).cv_id : r \in mine}
          /\ \A i, j \in DOMAIN cvs : i < j => cvs[i].id > cvs[j].id
          /\ last_query'.response.body.total = Cardinality(mine)
    ]_vars

\* The depth the scheduler's queue is configured with.
QueueDepth == 1

\* The jobs waiting for dispatch: their task was added and has not been started.
Waiting == {r \in RequestIds : task_pc[r] = "pending"}

\* C15: the number of jobs waiting for dispatch never exceeds the configured
\* queue depth; a valid submission made when the queue is at that depth fails
\* with Overloaded (a retryable 5xx) and adds nothing to the queue.
C15_QueueBounded ==
  [][/\ Cardinality(Waiting') <= QueueDepth
     /\ \A r \in RequestIds :
          (/\ Cardinality(Waiting) = QueueDepth
           /\ pc[r] = "idle" /\ pc'[r] = "handled"
           /\ CVGenerationRequest(request'[r]))
          => /\ response'[r].status_code \in 500..599
             /\ background_tasks' = background_tasks
             /\ Waiting' = Waiting
    ]_vars

\* C16: under fair scheduling every admitted job eventually reaches a terminal
\* state: its task records completed or failed, also when a step raises.
C16_EventuallyTerminal ==
  \A r \in RequestIds : HasJob(r) ~> (Outcomes(r) # {})

\* C17: when a job is dispatched to a second executor, that executor finds the
\* job no longer queued and aborts: it returns without running the pipeline
\* and leaves the job's record as the first executor left it.
C17_DuplicateDispatchAborts ==
  [][\A r \in RequestIds :
       (task_runs[r] = 1 /\ task_runs'[r] = 2) =>
         /\ cv_generation_log'[r] = cv_generation_log[r]
         /\ task_pc'[r] = "done"
    ]_vars

\* The events with status st that the task of request r has logged.
Events(r, st) ==
  {i \in DOMAIN cv_generation_log[r] : cv_generation_log[r][i].status = st}

\* C19: the pipeline of a job is never executed again: generate_cv_task is
\* entered at most once per job and reaches its end (the completed event, where
\* the artifact is stored) at most once, also after a failure; a task that
\* waits to be run has never run before.
C19_NoAutomaticRetry ==
  \A r \in RequestIds :
    /\ task_runs[r] <= 1
    /\ Cardinality(Events(r, "completed")) <= 1
    /\ task_pc[r] \in {"none", "pending"} => task_runs[r] = 0
    /\ task_pc[r] \notin {"none", "pending"} => task_runs[r] = 1

\* C19's case: a task whose try block raised has ended, failed, after one run.
C19_Witness ==
  \E r \in RequestIds :
    /\ TaskFinished(r)
    /\ task_runs[r] = 1
    /\ Events(r, "failed") # {}
    /\ Events(r, "completed") = {}

\* The workers that run pipelines: the one event loop of the one server process.
WorkerCapacity == 1

\* The pipelines executing: generate_cv_task was entered and has not ended.
Executing == {r \in RequestIds : task_pc[r] = "except"}

\* C20: in every reachable state at most WorkerCapacity pipelines execute,
\* however many jobs were submitted and however many tasks are due.
C20_AtMostCapacityExecuting ==
  Cardinality(Executing) <= WorkerCapacity

\* C20's case: a pipeline executes while the task of another job, whose
\* response is sent, is due and held back.
C20_Witness ==
  \E r, q \in RequestIds :
    /\ r \in Executing
    /\ task_pc[q] = "pending"
    /\ pc[q] = "responded"

\* What is recorded about the job of request q and its request.
JobState(q) ==
  <<request[q], pc[q], response[q], background_tasks[q], task_pc[q],
    cv_generation_log[q], task_runs[q]>>

\* C21: a failure in the pipeline of one job is caught by generate_cv_task and
\* recorded as failed for that job; no exception leaves the task, and nothing
\* recorded about any other job changes in the steps that handle the failure.
C21_FailureContained ==
  [][\A r \in RequestIds :
       (task_pc'[r] = "except" \/ task_pc[r] = "except") =>
         /\ task_pc'[r] \in {"except", "done"}
         /\ task_pc'[r] = "done" => Events(r, "failed")' # {}
         /\ \A q \in RequestIds \ {r} : JobState(q)' = JobState(q)
    ]_vars

\* C22: a failure of a job's pipeline leaves the answer of the submission that
\* created the job an acceptance (2xx), and a later status read of the job by
\* its owner shows the failure: status failed with the job's error.
C22_FailureOnlyOnStatusRead ==
  [][\A r \in RequestIds :
       (HasJob(r) /\ Events(r, "failed") # {}) =>
         /\ response'[r] = response[r]
         /\ response[r].status_code \in 200..299
         /\ (/\ IsRead("status")
             /\ r \in JobsWithId(last_query'.cv_id)
             /\ last_query'.requester = Submitter(r))
            => /\ last_query'.response.status_code = 200
               /\ Field(last_query'.response.body, "status") = "failed"
               /\ Field(last_query'.response.body, "error") # None
    ]_vars

\* The accepted submissions of user u: the slots u has used in the window.
AllowedOf(u) ==
  {r \in RequestIds :
     /\ Handled(r)
     /\ Submitter(r) = u
     /\ response[r].status_code \in 200..299}

\* C23: a valid submission of a user is allowed exactly if the user has a slot
\* left in the hourly and in the daily window, and the submissions allowed to
\* one user in a window never outnumber the hourly or the daily limit.
C23_AllowedIffBothWindows ==
  /\ \A r \in RequestIds :
       (Handled(r) /\ CVGenerationRequest(request[r]) /\ Submitter(r) \in Users) =>
         (r \in AllowedOf(Submitter(r)) <=> HasQuota(r))
  /\ \A u \in Users :
       /\ Cardinality(AllowedOf(u)) <= settings.RATE_LIMIT_PER_HOUR
       /\ Cardinality(AllowedOf(u)) <= settings.RATE_LIMIT_PER_DAY

\* C24: no two jobs share an id, whatever the order in which their requests
\* were handled, answered and run, and the id a client got in its response is
\* the id of the job created for its request and of no other.
C24_IdsUnique ==
  \A r, q \in Jobs :
    /\ r # q => JobTask(r).cv_id # JobTask(q).cv_id
    /\ response[q].body.id = JobTask(r).cv_id => q = r

\* C24's case: two jobs exist whose requests were in flight together.
C24_Witness ==
  \E r, q \in Jobs :
    /\ r < q
    /\ pc[r] = "handled"
    /\ pc[q] = "handled"
    /\ response[r].body.id # response[q].body.id

\* C25: an accepted request has exactly one scheduled task, generate_cv_task
\* with the id of the response, the request's body and the handler's user; a
\* request rejected by validation has none.
C25_OneTaskPerAccepted ==
  \A r \in RequestIds :
    Handled(r) =>
      IF CVGenerationRequest(request[r])
      THEN /\ Len(background_tasks[r]) = 1
           /\ JobTask(r).func = "generate_cv_task"
           /\ JobTask(r).cv_id = response[r].body.id
           /\ JobTask(r).request = request[r]
           /\ task_pc[r] # "none"
      ELSE /\ background_tasks[r] = << >>
           /\ task_pc[r] = "none"
           /\ task_runs[r] = 0

\* C25's case: one request was rejected, a later one accepted and its one task
\* has run.
C25_Witness ==
  \E r, q \in RequestIds :
    /\ Handled(r) /\ Handled(q)
    /\ ~CVGenerationRequest(request[r])
    /\ CVGenerationRequest(request[q])
    /\ task_pc[q] = "done"
    /\ task_runs[q] = 1

Events_json == Get(ReadJson(dev_events_json), "events")

\* C28: after any number of log_event calls dev-events.json holds at most 1000
\* events, and they are the events logged last, in the order they were logged.
C28_LastThousandEvents ==
  "DevelopmentLogger" \in constructed =>
    /\ Len(Events_json) <= KeptEvents
    /\ Len(Events_json) = IF log_calls <= KeptEvents THEN log_calls ELSE KeptEvents
    /\ \A i \in DOMAIN Events_json :
         Events_json[i] = log_calls - Len(Events_json) + i

\* C28's case: more than 1000 events were logged, so the oldest was dropped.
C28_Witness ==
  /\ log_calls > KeptEvents
  /\ Len(Events_json) = KeptEvents
  /\ Events_json[1] = log_calls - KeptEvents + 1

\* C29: when a TimelineManager has been constructed on a project root,
\* timeline.json holds the six phases, conception in progress and no other,
\* and get_current_phase returns a phase; also when a DevelopmentLogger was
\* constructed on that root before.
C29_TimelineInitialized ==
  [][("TimelineManager" \notin constructed /\ "TimelineManager" \in constructed') =>
       LET phases == Get(ReadJson(timeline_json'), "phases")
       IN /\ Len(phases) = Len(PhaseIds)
          /\ \A i \in DOMAIN phases :
               /\ phases[i].id = PhaseIds[i]
               /\ phases[i].status = "in_progress" <=> phases[i].id = "conception"
          /\ CurrentPhase(timeline_json') # None
    ]_vars

\* The decisions decisions.json holds.
Decisions_json == Get(ReadJson(decisions_json), "decisions")

\* No add_decision call is under way.
TrackersIdle == \A p \in Processes : tracker[p].pc \in {"none", "idle"}

\* C27: when the add_decision calls of two processes on one project root have
\* returned, the ids in decisions.json are distinct and every call that
\* returned has its record in the file.
C27_NoLostOrDuplicateDecision ==
  TrackersIdle =>
    /\ \A i, j \in DOMAIN Decisions_json :
         i # j => Decisions_json[i].id # Decisions_json[j].id
    /\ \A call \in add_decision_returns :
         \E i \in DOMAIN Decisions_json :
           /\ Decisions_json[i].id = call.id
           /\ Decisions_json[i].title = call.title

\* The status the add_decision call that returned id gave the decision.
AddedStatus(returns, id) ==
  (CHOOSE call \in returns : call.id = id).status

\* C30: the history of every decision is a chain: the first entry's old_status
\* is the status given to add_decision, each later entry's old_status is the
\* new_status of the entry before it, and the decision's status is the last
\* entry's new_status; a call with an unknown id leaves decisions.json as it
\* was.
C30_HistoryIsChain ==
  [][/\ \A i \in DOMAIN Decisions_json' :
          LET decision == Decisions_json'[i]
              history == History(decision)
              added == AddedStatus(add_decision_returns', decision.id)
          IN /\ \E call \in add_decision_returns' : call.id = decision.id
             /\ IF history = << >>
                THEN decision.status = added
                ELSE /\ history[1].old_status = added
                     /\ \A k \in 2..Len(history) :
                          history[k].old_status = history[k - 1].new_status
                     /\ decision.status = history[Len(history)].new_status
     /\ \A p \in Processes :
          (/\ tracker[p].pc = "idle" /\ tracker'[p].pc = "idle"
           /\ tracker'[p].printed # tracker[p].printed
           /\ Head(tracker'[p].printed) = "not found")
          => decisions_json' = decisions_json
    ]_vars

\* C30's case: the second decision, added as proposed, went through two status
\* changes, and a call with an unknown id was made after them.
C30_Witness ==
  /\ tracker[1].pc = "idle"
  /\ tracker[1].printed # << >>
  /\ Head(tracker[1].printed) = "not found"
  /\ \E i \in DOMAIN Decisions_json :
       /\ Decisions_json[i].id = 2
       /\ Len(History(Decisions_json[i])) = 2
       /\ History(Decisions_json[i])[1].old_status = "proposed"
       /\ Decisions_json[i].status = "deprecated"

====
